---- MODULE Spec2Model ----
(***************************************************************************)
(* Employee Status Manager (src/app.py): a Streamlit form whose submit     *)
(* callback files a status text into a Google Docs document kept under     *)
(* status/<profile>/ on Google Drive.                                      *)
(*                                                                         *)
(* The state is the shared Drive storage (files, permissions, document     *)
(* bodies) and, per browser session, st.session_state, the widget values   *)
(* and the position of a running submit() callback.  Every remote call of  *)
(* submit() is one step: it either succeeds or raises.  Texts that are     *)
(* addressed by index (status contents, document bodies) are sequences of  *)
(* characters, one string per character: the character itself, or the name *)
(* "U+XXXX" of its code point where a TLA+ string cannot spell it.  Names   *)
(* are strings.                                                            *)
(***************************************************************************)
EXTENDS Integers, Sequences, FiniteSets, TLC

\* ---------------------------------------------------------------- bounds
\* The number of clicks on Submit (over all sessions) a behaviour explores.
MaxSubmits == 3

\* The browser sessions (each has its own st.session_state).
Sessions == {1, 2}

\* ---------------------------------------------------------- configuration
\* os.getenv("UPWORK_PROFILES").split(","): the profile selectbox options.
profiles == {"status", "alice"}

\* os.getenv("EMAIL_ADDRESS").split(","): the collaborators of the root folder.
email_addresses == <<"e1@x", "e2@x">>

\* datetime.today().date(), and an earlier day.
today == [year |-> 2024, month |-> 1, day |-> 7]
monday == [year |-> 2024, month |-> 1, day |-> 1]

\* The values the text area may hold when Submit is clicked.
RawInputs ==
    { <<>>, <<" ", "\f", "\n", "U+00A0">>, <<"a">>,
      <<"U+3000", "b", "\n", "c", "\n", "U+0085">> }

\* ------------------------------------------------------------------ texts
\* The characters str.strip() removes: those for which str.isspace() holds
\* (U+0009..U+000D, U+001C..U+0020, U+0085, U+00A0, U+1680, U+2000..U+200A,
\* U+2028, U+2029, U+202F, U+205F, U+3000).
Whitespace ==
    { "\t", "\n", "U+000B", "\f", "\r",
      "U+001C", "U+001D", "U+001E", "U+001F", " ",
      "U+0085", "U+00A0", "U+1680",
      "U+2000", "U+2001", "U+2002", "U+2003", "U+2004", "U+2005",
      "U+2006", "U+2007", "U+2008", "U+2009", "U+200A",
      "U+2028", "U+2029", "U+202F", "U+205F", "U+3000" }

\* str.strip(): drop leading and trailing whitespace.
RECURSIVE LStrip(_)
LStrip(t) ==
    IF t # <<>> /\ Head(t) \in Whitespace THEN LStrip(Tail(t)) ELSE t

RECURSIVE RStrip(_)
RStrip(t) ==
    IF t # <<>> /\ t[Len(t)] \in Whitespace
    THEN RStrip(SubSeq(t, 1, Len(t) - 1)) ELSE t

Strip(t) == RStrip(LStrip(t))

\* The dashes of the separator line of an appended section.
SeparatorDashes == 39

SeparatorLine == [i \in 1..SeparatorDashes |-> "-"]

\* "\n---------------------------------------\n\n" + content + "\n"
SectionText(content) ==
    <<"\n">> \o SeparatorLine \o <<"\n", "\n">> \o content \o <<"\n">>

\* strftime("%Y-%m-%d") and str(date): zero-padded ISO format.
Pad(n, width) ==
    LET s == ToString(n)
        zeros == [i \in 1..(width - Len(s)) |-> "0"]
        RECURSIVE Join(_)
        Join(z) == IF z = <<>> THEN "" ELSE Head(z) \o Join(Tail(z))
    IN  Join(zeros) \o s

IsoFormat(d) == Pad(d.year, 4) \o "-" \o Pad(d.month, 2) \o "-" \o Pad(d.day, 2)

DateLeq(a, b) ==
    \/ a.year < b.year
    \/ a.year = b.year /\ a.month < b.month
    \/ a.year = b.year /\ a.month = b.month /\ a.day <= b.day

\* The file name submit() derives from the status type and the date inputs.
FileName(status_type, selected_date, start_date, end_date) ==
    IF status_type = "Daily"
    THEN IsoFormat(selected_date)
    ELSE "Weekly_" \o IsoFormat(start_date) \o "_" \o IsoFormat(end_date)

\* What the form's date inputs accept: no date after today (max_value=today),
\* and a Weekly status that ends no earlier than it starts (min_value=start_date).
ValidForm(f) ==
    IF f.status_type = "Daily"
    THEN DateLeq(f.selected_date, today)
    ELSE DateLeq(f.start_date, f.end_date) /\ DateLeq(f.end_date, today)

\* The values of the status type and the date inputs that are explored.
FormInputs ==
    { f \in { [status_type |-> "Daily", selected_date |-> today,
               start_date |-> today, end_date |-> today],
             [status_type |-> "Weekly", selected_date |-> today,
               start_date |-> monday, end_date |-> today],
             [status_type |-> "Weekly", selected_date |-> today,
               start_date |-> today, end_date |-> monday] } : ValidForm(f) }

\* ------------------------------------------------------- Google Docs texts
\* A document body as the Docs API addresses it: the character at index i is
\* body[i], the last character is the body's final newline, and the end
\* index of the last structural element is Len(body) + 1.
EmptyBody == <<"\n">>

EndIndex(body) == Len(body) + 1

\* insertText at index i: text goes in front of the character at i.  The API
\* refuses an index outside 1 .. end index - 1.
ValidIndex(body, i) == i >= 1 /\ i < EndIndex(body)

InsertText(body, i, text) ==
    SubSeq(body, 1, i - 1) \o text \o SubSeq(body, i, Len(body))

\* documents().batchUpdate: the requests are applied in order, each to the
\* result of the one before; one invalid request rejects the whole batch.
RECURSIVE BatchUpdate(_, _)
BatchUpdate(body, requests) ==
    IF requests = <<>> THEN [ok |-> TRUE, body |-> body]
    ELSE LET r == Head(requests) IN
         IF ValidIndex(body, r.index)
         THEN BatchUpdate(InsertText(body, r.index, r.text), Tail(requests))
         ELSE [ok |-> FALSE, body |-> body]

\* A slip in the offsets: the section is inserted at the index of the newline.
AppendRequestsSameIndex(doc_length, content) ==
    << [index |-> doc_length - 1, text |-> <<"\n">>],
       [index |-> doc_length - 1, text |-> SectionText(content)] >>

\* The two insertText requests save_status builds for an existing document.
AppendRequests(doc_length, content) ==
    << [index |-> doc_length - 1, text |-> <<"\n">>],
       [index |-> doc_length, text |-> SectionText(content)] >>

\* A slip in the text: the first content without its newline.
CreateRequestsNoNewline(content) ==
    << [index |-> 1, text |-> content] >>

\* The one insertText request save_status builds for a new document.
CreateRequests(content) ==
    << [index |-> 1, text |-> content \o <<"\n">>] >>

\* doc["body"]["content"][-1]["endIndex"]
DocLength(doc) == EndIndex(doc)

\* ------------------------------------------------------------------ state
\* Python's None, for an identifier that is not (yet) there.
None == 0

VARIABLES
    files,            \* Drive: file id |-> [kind, name, parent, body]; ids are 1..Len(files)
    perms,            \* Drive: the granted writer permissions, <<folder id, email>>
    current_page,     \* st.session_state.current_page, per session
    process_running,  \* st.session_state.process_running, per session
    alert,            \* what st.error last showed in the session ("none" when nothing)
    text,             \* the text area's value at the session's last click on Submit
    pc,               \* where the session's submit() callback stands ("idle": not running)
    frame,            \* the local variables of the session's running submit() call
    trace,            \* history of the session's current or last submit() call
    written,          \* history: file id |-> the batches applied to the document
    orphan,           \* history: the root folder of a submission that failed right after creating it
    clicks            \* history: the clicks on Submit, per session

vars == <<files, perms, current_page, process_running, alert, text, pc, frame,
          trace, written, orphan, clicks>>

storage == <<files, perms, written>>

NoFrame ==
    [ status |-> <<>>, selected_profile |-> "", form |-> None, file_name |-> "",
      main_folder_id |-> None, profile_folder_id |-> None,
      creating |-> "", folder_id |-> None, emails |-> <<>>, email_i |-> 0,
      file_id |-> None, doc |-> <<>> ]

\* calls: the remote calls issued, in order; failed: the call that raised;
\* made_main: the root folder this call created; expected_main: the value of
\* orphan at this call's root lookup; start: the Drive files when the call
\* began (the last two while the call runs).
NoTrace ==
    [ calls |-> <<>>, failed |-> "", made_main |-> None, expected_main |-> None,
      start |-> <<>> ]

\* Lines 15-20: a new session's state.
Init ==
    /\ files = <<>>
    /\ perms = {}
    /\ written = <<>>
    /\ current_page = [s \in Sessions |-> "main"]
    /\ process_running = [s \in Sessions |-> FALSE]
    /\ alert = [s \in Sessions |-> "none"]
    /\ text = [s \in Sessions |-> <<>>]
    /\ pc = [s \in Sessions |-> "idle"]
    /\ frame = [s \in Sessions |-> NoFrame]
    /\ trace = [s \in Sessions |-> NoTrace]
    /\ orphan = None
    /\ clicks = [s \in Sessions |-> 0]

\* ------------------------------------------------------------ Drive queries
Folder(name, parent) == [kind |-> "folder", name |-> name, parent |-> parent, body |-> <<>>]

Document(name, parent) == [kind |-> "document", name |-> name, parent |-> parent, body |-> EmptyBody]

\* files().list(q="name=... and mimeType=folder [and parent in parents]"): the
\* matching ids.  The query names no parent when parent_id is None, and then
\* matches folders at any depth.
FolderMatches(folder_name, parent_id) ==
    { i \in 1..Len(files) :
        /\ files[i].kind = "folder"
        /\ files[i].name = folder_name
        /\ (parent_id # None => files[i].parent = parent_id) }

\* A slip in the lookup: a query that matches nothing.
get_folder_id_no_match(folder_name, parent_id) == {None}

\* get_folder_id: folders[0]["id"] if folders else None.  The order of the
\* response is the provider's, so any match may come first.
get_folder_id(folder_name, parent_id) ==
    IF FolderMatches(folder_name, parent_id) = {} THEN {None}
    ELSE FolderMatches(folder_name, parent_id)

\* save_status's lookup: name, parent and the Google Docs mime type.
DocumentMatches(file_name, folder_id) ==
    { i \in 1..Len(files) :
        /\ files[i].kind = "document"
        /\ files[i].name = file_name
        /\ files[i].parent = folder_id }

\* ------------------------------------------------------------ the callback
\* A slip in the validation: the text is taken as typed.
StatusUnstripped(raw) == raw

\* status = st.text_area(...).strip()
StatusOf(raw) == Strip(raw)

\* if not status
IsEmptyStatus(status) == status = <<>>

\* The Submit button is rendered on the main page, disabled while
\* process_running is set.
SubmitEnabled(s) == current_page[s] = "main" /\ ~process_running[s]

RECURSIVE Sum(_, _)
Sum(f, S) == IF S = {} THEN 0 ELSE LET x == CHOOSE y \in S : TRUE IN f[x] + Sum(f, S \ {x})

CanClick(s) == pc[s] = "idle" /\ SubmitEnabled(s) /\ Sum(clicks, Sessions) < MaxSubmits

Idle == \A t \in Sessions : pc[t] = "idle"

\* The remote call a running callback is about to issue.
CallAt(s) ==
    CASE pc[s] = "authenticate"   -> <<"authenticate", "">>
      [] pc[s] = "find_main"      -> <<"files.list", "status">>
      [] pc[s] = "create_main"    -> <<"files.create", "status">>
      [] pc[s] = "grant"          -> <<"permissions.create", frame[s].emails[frame[s].email_i]>>
      [] pc[s] = "find_profile"   -> <<"files.list", frame[s].selected_profile>>
      [] pc[s] = "create_profile" -> <<"files.create", frame[s].selected_profile>>
      [] pc[s] = "find_doc"       -> <<"files.list", frame[s].file_name>>
      [] pc[s] = "get_doc"        -> <<"documents.get", frame[s].file_name>>
      [] pc[s] = "update_doc"     -> <<"documents.batchUpdate", frame[s].file_name>>
      [] pc[s] = "create_doc"     -> <<"files.create", frame[s].file_name>>
      [] pc[s] = "init_doc"       -> <<"documents.batchUpdate", frame[s].file_name>>

Issued(s) == [trace EXCEPT ![s].calls = Append(@, CallAt(s))]

\* The history of a call that returns or raises: what it saw of the storage
\* is dropped, what it did is kept until the session's next call.
Returned(s) == [Issued(s) EXCEPT ![s].start = <<>>, ![s].expected_main = None]

\* submit(), lines 245-247: an empty status is refused before anything else.
SubmitEmpty(s, raw) ==
    /\ CanClick(s)
    /\ IsEmptyStatus(StatusOf(raw))
    /\ text' = [text EXCEPT ![s] = raw]
    /\ clicks' = [clicks EXCEPT ![s] = @ + 1]
    /\ alert' = [alert EXCEPT ![s] = "empty"]
    /\ UNCHANGED <<files, perms, written, current_page, process_running, pc,
                   frame, trace, orphan>>

\* submit(), lines 249-250: the callback starts with the widgets' values.
SubmitBegin(s, raw, profile, form) ==
    /\ CanClick(s)
    /\ ~IsEmptyStatus(StatusOf(raw))
    /\ text' = [text EXCEPT ![s] = raw]
    /\ clicks' = [clicks EXCEPT ![s] = @ + 1]
    /\ alert' = [alert EXCEPT ![s] = "none"]
    /\ process_running' = [process_running EXCEPT ![s] = TRUE]
    /\ pc' = [pc EXCEPT ![s] = "authenticate"]
    /\ frame' = [frame EXCEPT ![s] =
                    [NoFrame EXCEPT !.status = StatusOf(raw),
                                    !.selected_profile = profile,
                                    !.form = form]]
    /\ trace' = [trace EXCEPT ![s] = [NoTrace EXCEPT !.start = files]]
    /\ UNCHANGED <<files, perms, written, current_page, orphan>>

\* A slip in the handler: the in-flight flag is left set.
ExceptKeepsRunning(s) ==
    /\ alert' = [alert EXCEPT ![s] = "error"]
    /\ UNCHANGED <<process_running, current_page>>

\* except Exception: st.error(...); process_running = False (lines 278-280).
Except(s) ==
    /\ alert' = [alert EXCEPT ![s] = "error"]
    /\ process_running' = [process_running EXCEPT ![s] = FALSE]
    /\ UNCHANGED current_page

\* The calls between the creation of the root folder and that of the profile
\* folder: a submission that fails there leaves a root folder without one.
BeforeProfileFolder == {"grant", "find_profile", "create_profile"}

\* Any remote call may raise; nothing it was to do is done, and the
\* exception ends the callback in submit()'s handler.
RemoteFails(s) ==
    /\ pc[s] # "idle"
    /\ trace' = [Returned(s) EXCEPT ![s].failed = CallAt(s)[1]]
    /\ orphan' = IF trace[s].made_main # None /\ pc[s] \in BeforeProfileFolder
                 THEN trace[s].made_main ELSE orphan
    /\ pc' = [pc EXCEPT ![s] = "idle"]
    /\ Except(s)
    /\ frame' = [frame EXCEPT ![s] = NoFrame]
    /\ UNCHANGED <<files, perms, written, text, clicks>>

\* authenticate_drive()
Authenticate(s) ==
    /\ pc[s] = "authenticate"
    /\ trace' = Issued(s)
    /\ pc' = [pc EXCEPT ![s] = "find_main"]
    /\ UNCHANGED <<files, perms, written, current_page, process_running, alert,
                   text, frame, orphan, clicks>>

\* get_folder_id(service, "status") or create_folder(...), the lookup.
FindMain(s) ==
    /\ pc[s] = "find_main"
    /\ \E found \in get_folder_id("status", None) :
          /\ frame' = [frame EXCEPT ![s].main_folder_id = found]
          /\ pc' = [pc EXCEPT ![s] = IF found = None THEN "create_main" ELSE "find_profile"]
    /\ trace' = [Issued(s) EXCEPT ![s].expected_main = orphan]
    /\ orphan' = None
    /\ UNCHANGED <<files, perms, written, current_page, process_running, alert,
                   text, clicks>>

\* Lines 266-271, once the profile folder is known.
WithFileName(fr) ==
    [fr EXCEPT !.file_name = FileName(fr.form.status_type, fr.form.selected_date,
                                      fr.form.start_date, fr.form.end_date)]

\* A slip in the call: the collaborators are passed for a profile folder too.
ProfileCollaboratorsGranted == email_addresses

\* The email_addresses argument of submit()'s two create_folder calls: the
\* configured addresses for the root folder (line 257), the default None for
\* a profile folder (line 263).
MainCollaborators == email_addresses

ProfileCollaborators == <<>>

\* create_folder has returned folder_id: submit() assigns it and goes on.
AfterCreateFolder(fr) ==
    IF fr.creating = "main"
    THEN [fr EXCEPT !.main_folder_id = fr.folder_id]
    ELSE WithFileName([fr EXCEPT !.profile_folder_id = fr.folder_id])

PcAfterCreateFolder(fr) == IF fr.creating = "main" THEN "find_profile" ELSE "find_doc"

\* create_folder, lines 79-88: files().create, then the grants if any.
CreateFolder(s, folder_name, parent_id, emails, creating) ==
    LET fr == [frame[s] EXCEPT !.creating = creating, !.folder_id = Len(files) + 1,
                               !.emails = emails, !.email_i = 1]
    IN  /\ files' = Append(files, Folder(folder_name, parent_id))
        /\ written' = Append(written, <<>>)
        /\ IF emails # <<>>
           THEN /\ frame' = [frame EXCEPT ![s] = fr]
                /\ pc' = [pc EXCEPT ![s] = "grant"]
           ELSE /\ frame' = [frame EXCEPT ![s] = AfterCreateFolder(fr)]
                /\ pc' = [pc EXCEPT ![s] = PcAfterCreateFolder(fr)]

\* create_folder(service, "status", email_addresses=...), lines 254-258.
CreateMain(s) ==
    /\ pc[s] = "create_main"
    /\ CreateFolder(s, "status", None, MainCollaborators, "main")
    /\ trace' = [Issued(s) EXCEPT ![s].made_main = Len(files) + 1]
    /\ UNCHANGED <<perms, current_page, process_running, alert, text, orphan, clicks>>

\* create_folder, lines 89-95: one permissions().create per email address,
\* then the folder id is returned.
Grant(s) ==
    /\ pc[s] = "grant"
    /\ perms' = perms \cup {<<frame[s].folder_id, frame[s].emails[frame[s].email_i]>>}
    /\ trace' = Issued(s)
    /\ IF frame[s].email_i < Len(frame[s].emails)
       THEN /\ frame' = [frame EXCEPT ![s].email_i = @ + 1]
            /\ pc' = pc
       ELSE /\ frame' = [frame EXCEPT ![s] = AfterCreateFolder(@)]
            /\ pc' = [pc EXCEPT ![s] = PcAfterCreateFolder(frame[s])]
    /\ UNCHANGED <<files, written, current_page, process_running, alert, text,
                   orphan, clicks>>

\* get_folder_id(service, selected_profile, main_folder_id) or ..., the lookup.
FindProfile(s) ==
    /\ pc[s] = "find_profile"
    /\ \E found \in get_folder_id(frame[s].selected_profile, frame[s].main_folder_id) :
          IF found = None
          THEN /\ frame' = frame
               /\ pc' = [pc EXCEPT ![s] = "create_profile"]
          ELSE /\ frame' = [frame EXCEPT ![s] = WithFileName([@ EXCEPT !.profile_folder_id = found])]
               /\ pc' = [pc EXCEPT ![s] = "find_doc"]
    /\ trace' = Issued(s)
    /\ UNCHANGED <<files, perms, written, current_page, process_running, alert,
                   text, orphan, clicks>>

\* create_folder(service, selected_profile, main_folder_id), lines 261-263.
CreateProfile(s) ==
    /\ pc[s] = "create_profile"
    /\ CreateFolder(s, frame[s].selected_profile, frame[s].main_folder_id,
                    ProfileCollaborators, "profile")
    /\ trace' = Issued(s)
    /\ UNCHANGED <<perms, current_page, process_running, alert, text, orphan, clicks>>

\* save_status, lines 159-165: is there a document of that name in the folder?
FindDoc(s) ==
    /\ pc[s] = "find_doc"
    /\ LET found == DocumentMatches(frame[s].file_name, frame[s].profile_folder_id) IN
          IF found = {}
          THEN /\ frame' = frame
               /\ pc' = [pc EXCEPT ![s] = "create_doc"]
          ELSE \E id \in found :
               /\ frame' = [frame EXCEPT ![s].file_id = id]
               /\ pc' = [pc EXCEPT ![s] = "get_doc"]
    /\ trace' = Issued(s)
    /\ UNCHANGED <<files, perms, written, current_page, process_running, alert,
                   text, orphan, clicks>>

\* save_status, lines 174-177: fetch the document; its end index is read from it.
GetDoc(s) ==
    /\ pc[s] = "get_doc"
    /\ frame' = [frame EXCEPT ![s].doc = files[frame[s].file_id].body]
    /\ pc' = [pc EXCEPT ![s] = "update_doc"]
    /\ trace' = Issued(s)
    /\ UNCHANGED <<files, perms, written, current_page, process_running, alert,
                   text, orphan, clicks>>

\* submit(), line 277, after save_status has returned.
Confirm(s) ==
    /\ current_page' = [current_page EXCEPT ![s] = "confirmation"]
    /\ pc' = [pc EXCEPT ![s] = "idle"]
    /\ UNCHANGED <<process_running, alert>>

\* save_status, lines 180-207: the batch of two inserts, on the document as
\* it is when the batch arrives.
UpdateDoc(s) ==
    /\ pc[s] = "update_doc"
    /\ LET id  == frame[s].file_id
           res == BatchUpdate(files[id].body,
                              AppendRequests(DocLength(frame[s].doc), frame[s].status))
       IN  /\ res.ok
           /\ files' = [files EXCEPT ![id].body = res.body]
           /\ written' = [written EXCEPT ![id] =
                            Append(@, [content |-> frame[s].status,
                                       read |-> frame[s].doc,
                                       before |-> files[id].body])]
    /\ trace' = Returned(s)
    /\ Confirm(s)
    /\ frame' = [frame EXCEPT ![s] = NoFrame]
    /\ UNCHANGED <<perms, text, orphan, clicks>>

\* save_status, lines 214-222: create the document.
CreateDoc(s) ==
    /\ pc[s] = "create_doc"
    /\ files' = Append(files, Document(frame[s].file_name, frame[s].profile_folder_id))
    /\ written' = Append(written, <<>>)
    /\ frame' = [frame EXCEPT ![s].file_id = Len(files) + 1]
    /\ pc' = [pc EXCEPT ![s] = "init_doc"]
    /\ trace' = Issued(s)
    /\ UNCHANGED <<perms, current_page, process_running, alert, text, orphan, clicks>>

\* save_status, lines 225-238: the first insert, at index 1.
InitDoc(s) ==
    /\ pc[s] = "init_doc"
    /\ LET id  == frame[s].file_id
           res == BatchUpdate(files[id].body, CreateRequests(frame[s].status))
       IN  /\ res.ok
           /\ files' = [files EXCEPT ![id].body = res.body]
           /\ written' = [written EXCEPT ![id] =
                            Append(@, [content |-> frame[s].status,
                                       read |-> <<>>,
                                       before |-> files[id].body])]
    /\ trace' = Returned(s)
    /\ Confirm(s)
    /\ frame' = [frame EXCEPT ![s] = NoFrame]
    /\ UNCHANGED <<perms, text, orphan, clicks>>

\* The confirmation page's "Go Back" button, lines 333-334.
GoBack(s) ==
    /\ pc[s] = "idle"
    /\ current_page[s] = "confirmation"
    /\ current_page' = [current_page EXCEPT ![s] = "main"]
    /\ UNCHANGED <<files, perms, written, process_running, alert, text, pc, frame,
                   trace, orphan, clicks>>

\* The browser reloads the page: a new session, whose state lines 15-20 set.
Reload(s) ==
    /\ pc[s] = "idle"
    /\ current_page' = [current_page EXCEPT ![s] = "main"]
    /\ process_running' = [process_running EXCEPT ![s] = FALSE]
    /\ alert' = [alert EXCEPT ![s] = "none"]
    /\ text' = [text EXCEPT ![s] = <<>>]
    /\ frame' = [frame EXCEPT ![s] = NoFrame]
    /\ trace' = [trace EXCEPT ![s] = NoTrace]
    /\ UNCHANGED <<files, perms, written, pc, orphan, clicks>>

Click(s) ==
    \E raw \in RawInputs :
       \/ SubmitEmpty(s, raw)
       \/ \E profile \in profiles, form \in FormInputs : SubmitBegin(s, raw, profile, form)

Step(s) ==
    \/ Authenticate(s)
    \/ FindMain(s)
    \/ CreateMain(s)
    \/ Grant(s)
    \/ FindProfile(s)
    \/ CreateProfile(s)
    \/ FindDoc(s)
    \/ GetDoc(s)
    \/ UpdateDoc(s)
    \/ CreateDoc(s)
    \/ InitDoc(s)
    \/ RemoteFails(s)
    \/ GoBack(s)
    \/ Reload(s)

\* Submissions one after the other: one browser, whose user may reload the
\* page (a new session) between submissions.  Submit cannot be clicked while
\* the browser's callback runs, and no other session acts.
Browser == CHOOSE s \in Sessions : TRUE

Next == Click(Browser) \/ Step(Browser)

Spec == Init /\ [][Next]_vars

\* Sessions of different users run their callbacks concurrently: the remote
\* calls of one interleave with those of the other, and any of them may
\* raise (authenticate_drive() of one session reads credentials.json, line 53,
\* while a script run of the other rewrites it, lines 36-37).  The sessions
\* file Daily statuses of today for one profile, each user a text of their
\* own (two of RawInputs).
Typed == [s \in Sessions |-> IF s = Browser THEN <<"a">>
                             ELSE <<"U+3000", "b", "\n", "c", "\n", "U+0085">>]

ConcClick(s) ==
    \E form \in {f \in FormInputs : f.status_type = "Daily"} :
       SubmitBegin(s, Typed[s], "alice", form)

ConcNext == \E s \in Sessions : ConcClick(s) \/ Step(s)

ConcSpec == Init /\ [][ConcNext]_vars

\* ------------------------------------------------------------ vocabulary
Docs == {i \in 1..Len(files) : files[i].kind = "document"}

Folders == {i \in 1..Len(files) : files[i].kind = "folder"}

\* The folders named "status" that lie at the top of the Drive.
RootFolders == {i \in Folders : files[i].name = "status" /\ files[i].parent = None}

\* The folders that hold a profile's documents: the named folders below another.
ProfileFolders(p) == {i \in Folders : files[i].name = p /\ files[i].parent # None}

\* The documents named f that a folder of profile p holds.
ProfileDocs(p, f) ==
    {i \in Docs : files[i].name = f /\ files[i].parent \in ProfileFolders(p)}

FileNames == {files[i].name : i \in Docs}

IsBlank(raw) == \A i \in 1..Len(raw) : raw[i] \in Whitespace

IsPrefix(a, b) == Len(a) <= Len(b) /\ SubSeq(b, 1, Len(a)) = a

Front(body) == SubSeq(body, 1, Len(body) - 1)

Contents(w) == [i \in 1..Len(w) |-> w[i].content]

\* A section as it stands in a document: a blank line's newline, then the
\* separator line, a blank line, the content and its newline.
Section(content) == <<"\n">> \o SectionText(content)

RECURSIVE Sections(_)
Sections(cs) == IF cs = <<>> THEN <<>> ELSE Section(Head(cs)) \o Sections(Tail(cs))

\* The body of a document that holds the contents cs, the first written at
\* creation and each later one as a section, before the final newline.
Layout(cs) == Head(cs) \o <<"\n">> \o Sections(Tail(cs)) \o <<"\n">>

\* The separator lines of a body.
SeparatorCount(body) ==
    Cardinality({i \in 1..Len(body) :
        /\ i + SeparatorDashes + 1 <= Len(body)
        /\ SubSeq(body, i, i + SeparatorDashes + 1) = <<"\n">> \o SeparatorLine \o <<"\n">>})

\* The emails of the permission grants among the calls cs, in order.
RECURSIVE GrantCalls(_)
GrantCalls(cs) ==
    IF cs = <<>> THEN <<>>
    ELSE IF Head(cs)[1] = "permissions.create"
         THEN <<Head(cs)[2]>> \o GrantCalls(Tail(cs))
         ELSE GrantCalls(Tail(cs))

\* The batch that created the document's first content.
IsInitial(rec) == rec.read = <<>>

\* ------------------------------------------------------------------ claims

\* C1.  n >= 2 successful sequential submissions of one profile and one file
\* name, starting without a document of that name: afterwards the profile
\* has exactly one document of that name, and its body holds the n contents
\* in submission order, each later one after a separator line and before the
\* final newline.
C1_AppendedInOrder ==
    \A p \in profiles, f \in FileNames :
       LET D == ProfileDocs(p, f) IN
       ( /\ \A d \in D : written[d] # <<>> /\ IsInitial(written[d][1])
         /\ Sum([d \in D |-> Len(written[d])], D) >= 2 )
       => \E d \in D : /\ D = {d}
                       /\ files[d].body = Layout(Contents(written[d]))

\* C1 without the profile whose name is the root folder's: the body of every
\* document that was created with its first content is the layout of the
\* contents written to it, in order.
AppendLayout ==
    \A d \in Docs :
       (written[d] # <<>> /\ IsInitial(written[d][1]))
       => files[d].body = Layout(Contents(written[d]))

AppendLayoutWitness ==
    \E d \in Docs : Len(written[d]) >= 3 /\ IsInitial(written[d][1])

\* C2.  A successful submission of a Daily status whose profile folder holds
\* no document of the date's name creates exactly one document, of that name
\* and in that folder, with the body content + "\n" from index 1 on, and
\* leaves every other file as it was.
C2_FirstStatusCreatesDocument ==
    [][ \A s \in Sessions :
          ( /\ pc[s] # "idle"
            /\ current_page'[s] = "confirmation"
            /\ frame[s].form.status_type = "Daily"
            /\ ~ \E i \in 1..Len(trace[s].start) :
                   /\ trace[s].start[i].kind = "document"
                   /\ trace[s].start[i].name = IsoFormat(frame[s].form.selected_date)
                   /\ trace[s].start[i].parent = frame[s].profile_folder_id )
          => LET old == trace[s].start
                 new == {i \in (Len(old) + 1)..Len(files') : files'[i].kind = "document"}
             IN  /\ new = {frame[s].file_id}
                 /\ files'[frame[s].file_id].name = IsoFormat(frame[s].form.selected_date)
                 /\ files'[frame[s].file_id].parent = frame[s].profile_folder_id
                 /\ frame[s].profile_folder_id \in ProfileFolders(frame[s].selected_profile)
                 /\ files'[frame[s].file_id].body = frame[s].status \o <<"\n">> \o EmptyBody
                 /\ \A i \in 1..Len(old) : files'[i] = old[i]
      ]_vars

C2_Witness ==
    \E d \in Docs, s \in Sessions :
       /\ files[d].name = IsoFormat(today)
       /\ Len(written[d]) = 1
       /\ IsInitial(written[d][1])
       /\ files[d].body = <<"b", "\n", "c", "\n", "\n">>
       /\ current_page[s] = "confirmation"

\* C3.  Submitting is transient: once a submission is over and the session
\* is back on the Input view, the submit action is enabled.
C3_SubmitEnabledOnInput ==
    \A s \in Sessions :
       (pc[s] = "idle" /\ current_page[s] = "main") => SubmitEnabled(s)

\* C4.  A remote call of submit() that fails leaves the session on the Input
\* view with an error shown and the in-flight flag cleared, and writes to no
\* document.
C4_FailureReturnsToInput ==
    [][ \A s \in Sessions :
          (pc[s] # "idle" /\ trace'[s].failed # "")
          => /\ pc'[s] = "idle"
             /\ current_page'[s] = "main"
             /\ alert'[s] = "error"
             /\ ~process_running'[s]
             /\ UNCHANGED <<files, written>>
      ]_vars

C4_Witness ==
    \E s \in Sessions :
       /\ trace[s].failed = "documents.batchUpdate"
       /\ Len(trace[s].calls) >= 2
       /\ trace[s].calls[Len(trace[s].calls) - 1][1] = "documents.get"
       /\ current_page[s] = "main"
       /\ alert[s] = "error"
       /\ ~process_running[s]

\* C5.  A click on Submit with an empty or whitespace-only text shows an
\* error, issues no remote call and changes nothing else.
C5_BlankStatusRefused ==
    [][ \A s \in Sessions :
          (clicks'[s] # clicks[s] /\ IsBlank(text'[s]))
          => /\ alert'[s] = "empty"
             /\ UNCHANGED <<files, perms, written, trace, frame, pc,
                            current_page, process_running>>
      ]_vars

C5_Witness ==
    \E s \in Sessions :
       /\ text[s] # <<>>
       /\ IsBlank(text[s])
       /\ alert[s] = "empty"
       /\ clicks[s] > 0
       /\ trace[s].calls = <<>>

\* C6.  Sequential submissions never duplicate a folder: there is one root
\* folder, one folder per profile, and each profile folder lies directly in
\* the root folder.
C6_NoDuplicateFolders ==
    /\ Cardinality(RootFolders) <= 1
    /\ \A p \in profiles : Cardinality(ProfileFolders(p)) <= 1
    /\ \A i \in Folders : files[i].parent # None => files[i].parent \in RootFolders

\* C7 as claimed.  A submission that has created the root folder has issued
\* exactly one grant call per configured address when it is over; one that
\* has not issues none.
C7_GrantsOncePerEmail ==
    \A s \in Sessions :
       LET g == GrantCalls(trace[s].calls) IN
       /\ trace[s].made_main = None => g = <<>>
       /\ (pc[s] = "idle" /\ trace[s].made_main # None) => g = email_addresses

\* C7 as amended.  Grant calls are issued only by the submission that creates
\* the root folder and only for that folder, one per configured address in
\* the configured order, and stop at the first grant call that fails: the
\* grants are complete exactly when no grant call failed.
C7_GrantsOnlyOnRootCreation ==
    /\ \A s \in Sessions :
          LET g == GrantCalls(trace[s].calls) IN
          /\ trace[s].made_main = None => g = <<>>
          /\ IsPrefix(g, email_addresses)
          /\ ( /\ trace[s].made_main # None
               /\ pc[s] \notin {"grant"}
               /\ trace[s].failed # "permissions.create" )
             => g = email_addresses
          /\ trace[s].failed = "permissions.create" =>
                /\ <<trace[s].made_main, g[Len(g)]>> \notin perms
                /\ \A j \in 1..(Len(g) - 1) : <<trace[s].made_main, g[j]>> \in perms
    /\ \A g \in perms : g[1] \in RootFolders

C7_Witness ==
    \E s \in Sessions :
       /\ pc[s] = "idle"
       /\ trace[s].calls # <<>>
       /\ trace[s].made_main = None
       /\ trace[s].failed = ""
       /\ Cardinality(perms) = Len(email_addresses)
       /\ \E p \in profiles : Cardinality(ProfileFolders(p)) >= 1

\* C8.  Nothing is rolled back.  Files and grants stay in storage whatever
\* fails; a root folder whose k-th grant failed keeps grants 1..k-1 and the
\* session is back on the Input view; and the submission after one that
\* created the root folder and then failed finds that folder and creates none.
C8_PartialCreationPersists ==
    [][ /\ Len(files') >= Len(files)
        /\ \A i \in 1..Len(files) :
              /\ files'[i].kind = files[i].kind
              /\ files'[i].name = files[i].name
              /\ files'[i].parent = files[i].parent
        /\ perms \subseteq perms'
        /\ \A s \in Sessions :
              /\ (pc[s] = "grant" /\ trace'[s].failed # "")
                 => /\ frame[s].folder_id \in RootFolders'
                    /\ \A j \in 1..(frame[s].email_i - 1) :
                          <<frame[s].folder_id, frame[s].emails[j]>> \in perms'
                    /\ current_page'[s] = "main"
                    /\ alert'[s] = "error"
                    /\ orphan' = frame[s].folder_id
              /\ (pc[s] = "create_profile" /\ trace'[s].failed # "" /\ trace[s].made_main # None)
                 => /\ trace[s].made_main \in RootFolders'
                    /\ orphan' = trace[s].made_main
              /\ (pc[s] = "find_main" /\ pc'[s] \notin {"find_main", "idle"} /\ orphan # None)
                 => /\ pc'[s] = "find_profile"
                    /\ frame'[s].main_folder_id = orphan
                    /\ RootFolders' = {orphan}
      ]_vars

C8_Witness ==
    \E s \in Sessions :
       /\ pc[s] = "find_profile"
       /\ trace[s].expected_main # None
       /\ frame[s].main_folder_id = trace[s].expected_main
       /\ trace[s].made_main = None
       /\ perms = {<<trace[s].expected_main, email_addresses[1]>>}

\* C9.  Whenever no submission is running, every document holds k >= 1
\* entries and k - 1 separator lines and begins with its first entry.
C9_DocumentShape ==
    Idle =>
       \A d \in Docs :
          /\ Len(written[d]) >= 1
          /\ SeparatorCount(files[d].body) = Len(written[d]) - 1
          /\ IsPrefix(written[d][1].content, files[d].body)

\* Two batches for one document, both built from the same fetched body, the
\* first applied to that very body and the second right after it.
StaleAppend(d) ==
    LET w == written[d] n == Len(written[d]) IN
    /\ n >= 2
    /\ ~IsInitial(w[n])
    /\ w[n].read = w[n - 1].read
    /\ w[n - 1].before = w[n - 1].read

\* C10 as claimed.  Two submissions that both read the document before either
\* batch is applied leave the original body followed by the two sections in
\* the order the batches were applied.
C10_SectionsInAppliedOrder ==
    \A d \in Docs :
       StaleAppend(d) =>
          LET w == written[d] n == Len(written[d]) IN
          files[d].body = Front(w[n].read) \o Section(w[n - 1].content)
                             \o Section(w[n].content) \o <<"\n">>

\* C10 as amended.  They leave the original body followed by the two
\* sections, whole and apart, in the reverse of the order the batches were
\* applied: the section of the batch applied last comes first.
C10_SectionsInReverseOrder ==
    \A d \in Docs :
       StaleAppend(d) =>
          LET w == written[d] n == Len(written[d]) IN
          files[d].body = Front(w[n].read) \o Section(w[n].content)
                             \o Section(w[n - 1].content) \o <<"\n">>

C10_Witness ==
    \E d \in Docs :
       /\ StaleAppend(d)
       /\ written[d][Len(written[d])].content # written[d][Len(written[d]) - 1].content
       /\ IsInitial(written[d][1])

====
